---- MODULE Spec2Model ----
(***************************************************************************)
(* Model of src/index.ts: the Hash Code 2019 photo slideshow batch.        *)
(*                                                                         *)
(* The batch loop (files.forEach) is a sequential process whose position   *)
(* is pc; the write streams opened by createOutput complete on the event   *)
(* loop, which only runs once the synchronous script has returned.         *)
(***************************************************************************)
EXTENDS Integers, Sequences, FiniteSets, TLC

\* ------------------------------------------------------------------ bounds
NumFiles == 2       \* files of the batch that are modelled
MaxFileSize == 6    \* size of one input file: per non-empty line, one plus
                    \* the larger of its declared tag count and its tag tokens
NumTags == 2        \* distinct tag strings that occur in the input
CmpNumTags == 3     \* tag strings in a direct call of compareSlides
CmpMaxTags == 4     \* tags on a line in a direct call of compareSlides

\* ------------------------------------------------------------------ values
\* Tags are 1..NumTags. UNDEF is the JavaScript value undefined, which
\* parts[i+2] yields when the line has fewer tag tokens than it declares.
UNDEF == 0
\* NaN is what parseFloat returns for a non-numeric tag count.
NaN == -1

Tags == 1..NumTags

RECURSIVE SeqsUpTo(_, _)
SeqsUpTo(S, n) ==
    IF n = 0 THEN {<<>>}
    ELSE LET shorter == SeqsUpTo(S, n - 1)
         IN  shorter \cup {Append(s, x) : s \in shorter, x \in S}

\* The non-empty input lines "<orientation> <numTags> <toks...>" of size at
\* most room + 1 whose tag count is numeric and not below the number of tag
\* tokens, or not numeric at all. The orientation token is "H" or "V", as the
\* input format has it; tokens after the declared count, which readPhoto
\* never reads, are left out.
PhotoLines(T, room) ==
    IF room < 0 THEN {} ELSE
    {l \in [orientation : {"H", "V"},
            numTags : (0..room) \cup {NaN},
            toks : SeqsUpTo(T, room)] :
        l.numTags # NaN => Len(l.toks) <= l.numTags}

\* The empty string between two "\n" (for instance after the last line).
EmptyLine == [orientation |-> "", numTags |-> NaN, toks |-> <<>>]

\* No line: the loop variable outside the loop.
NoLine == [orientation |-> "-", numTags |-> NaN, toks |-> <<>>]

\* A line that cannot be parsed into photo fields.
Malformed(l) == l.numTags = NaN \/ Len(l.toks) < l.numTags

\* The lines with as many tag tokens as they declare, and the others.
WellFormedLines(T, room) == {l \in PhotoLines(T, room) : ~Malformed(l)}
MalformedLines(T, room) == {l \in PhotoLines(T, room) : Malformed(l)}

LineSize(l) == 1 + (IF l.numTags # NaN /\ l.numTags > Len(l.toks) THEN l.numTags ELSE Len(l.toks))

Range(s) == {s[i] : i \in 1..Len(s)}

includes(s, x) == \E i \in 1..Len(s) : s[i] = x

\* ------------------------------------------------------------------ readPhoto
\* parts[i + 2] for the 0-based i of the loop; parts[0] and parts[1] are the
\* orientation and the count, so parts[i + 2] is the (i+1)-th tag token.
part(line, i) == IF i + 1 <= Len(line.toks) THEN line.toks[i + 1] ELSE UNDEF

\* for (i = 0; i < numTags; i++): no iteration when numTags is NaN.
readPhoto(line, nextIndex) ==
    LET n == IF line.numTags = NaN THEN 0 ELSE line.numTags
    IN  [id |-> nextIndex,
         orientation |-> line.orientation,
         tags |-> [i \in 1..n |-> part(line, i - 1)],
         tagScore |-> 0]

\* ------------------------------------------------------------------ tag index
EmptyMap == [t \in {} |-> <<>>]

\* photo.tags.forEach(tag => ...) of readFile: one push per element of tags.
RECURSIVE registerTags(_, _, _)
registerTags(tags, id, m) ==
    IF tags = <<>> THEN m
    ELSE LET tag == Head(tags)
             m2 == IF tag \in DOMAIN m
                   THEN [m EXCEPT ![tag] = Append(@, id)]
                   ELSE (tag :> <<id>>) @@ m
         IN  registerTags(Tail(tags), id, m2)

RECURSIVE SumSeq(_)
SumSeq(s) == IF s = <<>> THEN 0 ELSE Head(s) + SumSeq(Tail(s))

calculateTagScore(photo, m) ==
    SumSeq([i \in 1..Len(photo.tags) |->
              IF photo.tags[i] \in DOMAIN m THEN Len(m[photo.tags[i]]) ELSE 0])

\* ------------------------------------------------------------------ sort
\* Array.prototype.sort is stable (ECMAScript 2019; before that V8 sorted
\* arrays of up to ten elements by insertion, which is stable as well); the
\* comparator orders by descending tagScore. insertSorted puts p after every
\* element that does not rank strictly below it.
RECURSIVE insertSorted(_, _)
insertSorted(sorted, p) ==
    IF sorted = <<>> THEN <<p>>
    ELSE IF Head(sorted).tagScore - p.tagScore < 0
         THEN <<p>> \o sorted
         ELSE <<Head(sorted)>> \o insertSorted(Tail(sorted), p)

RECURSIVE sortFrom(_, _, _)
sortFrom(ps, i, acc) ==
    IF i > Len(ps) THEN acc ELSE sortFrom(ps, i + 1, insertSorted(acc, ps[i]))

\* The comparator stores the tag score in both photos it is handed; it is
\* never called on an array of fewer than two elements.
sortPhotos(ps, m) ==
    LET scored == [i \in 1..Len(ps) |->
                     IF Len(ps) >= 2
                     THEN [ps[i] EXCEPT !.tagScore = calculateTagScore(ps[i], m)]
                     ELSE ps[i]]
    IN  sortFrom(scored, 1, <<>>)

\* ------------------------------------------------------------------ slides
RECURSIVE dedup(_, _)
dedup(tags, seen) ==
    IF tags = <<>> THEN seen
    ELSE dedup(Tail(tags),
               IF includes(seen, Head(tags)) THEN seen ELSE Append(seen, Head(tags)))

createVerticalSlide_NoSet(photo1, photo2) ==
    [photos |-> <<photo1, photo2>>, tags |-> photo1.tags \o photo2.tags]

createVerticalSlide(photo1, photo2) ==
    [photos |-> <<photo1, photo2>>,
     tags |-> dedup(photo1.tags \o photo2.tags, <<>>)]

createHorizontalSlide(photo) == [photos |-> <<photo>>, tags |-> photo.tags]

\* for (i = 0; i < verticalPhotos.length; i += 2), 0-based i.
RECURSIVE verticalLoop_Step1(_, _)
verticalLoop_Step1(vs, i) ==
    IF i >= Len(vs) \/ i + 1 >= Len(vs) THEN <<>>
    ELSE <<createVerticalSlide(vs[i + 1], vs[i + 2])>> \o verticalLoop_Step1(vs, i + 1)

RECURSIVE verticalLoop(_, _)
verticalLoop(vs, i) ==
    IF i >= Len(vs) THEN <<>>
    ELSE IF i + 1 >= Len(vs) THEN <<>>
    ELSE <<createVerticalSlide(vs[i + 1], vs[i + 2])>> \o verticalLoop(vs, i + 2)

isH(p) == p.orientation = "H"
isV(p) == p.orientation = "V"

\* The slides solve() returns for the ranked photos.
buildSlides(ranked) ==
    LET horizontalPhotos == SelectSeq(ranked, isH)
        verticalPhotos == SelectSeq(ranked, isV)
        horizontalSlides == [i \in 1..Len(horizontalPhotos) |->
                               createHorizontalSlide(horizontalPhotos[i])]
        verticalSlides == verticalLoop(verticalPhotos, 0)
    IN  horizontalSlides \o verticalSlides

\* ------------------------------------------------------------------ scoring
Min2(a, b) == IF a <= b THEN a ELSE b

compareSlides(s1, s2) ==
    LET commonTags == Cardinality({i \in 1..Len(s1.tags) : includes(s2.tags, s1.tags[i])})
        uncommonLeftTags ==
            Cardinality({i \in 1..Len(s1.tags) : ~includes(s2.tags, s1.tags[i])})
        uncommonRightTags ==
            Cardinality({i \in 1..Len(s2.tags) : ~includes(s1.tags, s2.tags[i])})
    IN  Min2(commonTags, Min2(uncommonLeftTags, uncommonRightTags))

\* for (i = 0; i < length; i++) { if (i == length - 1) break; ... }, 0-based i.
RECURSIVE scoreLoop_SkipFirst(_, _, _)
scoreLoop_SkipFirst(ss, i, acc) ==
    IF i >= Len(ss) \/ i = Len(ss) - 1 THEN acc
    ELSE scoreLoop_SkipFirst(ss, i + 1,
             IF i = 0 THEN acc ELSE acc + compareSlides(ss[i + 1], ss[i + 2]))

RECURSIVE scoreLoop(_, _, _)
scoreLoop(ss, i, acc) ==
    IF i >= Len(ss) THEN acc
    ELSE IF i = Len(ss) - 1 THEN acc
    ELSE scoreLoop(ss, i + 1, acc + compareSlides(ss[i + 1], ss[i + 2]))

getScore(ss) == scoreLoop(ss, 0, 0)

\* ------------------------------------------------------------------ state
VARIABLES
    pc,         \* position of the script: the step of the forEach callback
    f,          \* 1-based index of the file the callback is running for
    line,       \* loop variable of readFile's for-of
    photos,     \* global photos
    allTags,    \* global allTags: tag -> photoIds
    nextIndex,  \* readFile's nextIndex
    size,       \* size of the part of the current file read so far
    slides,     \* the callback's slides
    score,      \* slideshow.score
    logged,     \* files whose score line was printed by console.log
    wstream,    \* per file, the state of the write stream createOutput opened
    error,      \* the uncaught error that ended the process, if any
    cmpPc,      \* position of a direct call of compareSlides
    slide1,     \* its first argument
    slide2,     \* its second argument
    result      \* its return value

batchVars == <<pc, f, line, photos, allTags, nextIndex, size, slides, score, logged, wstream, error>>
cmpVars == <<cmpPc, slide1, slide2, result>>
vars == <<batchVars, cmpVars>>

Files == 1..NumFiles

NoSlide == [photos |-> <<>>, tags |-> <<>>]

NoError == [kind |-> "none", file |-> 0]

Init ==
    /\ pc = "reset"
    /\ f = 1
    /\ line = NoLine
    /\ photos = <<>>
    /\ allTags = EmptyMap
    /\ nextIndex = 0
    /\ size = 0
    /\ slides = <<>>
    /\ score = 0
    /\ logged = {}
    /\ wstream = [k \in Files |-> "none"]
    /\ error = NoError
    /\ cmpPc = "arg1"
    /\ slide1 = NoSlide
    /\ slide2 = NoSlide
    /\ result = 0

\* ------------------------------------------------------------------ batch loop
\* reset(), first statement of the callback; slides and slideshow are fresh
\* locals of this invocation.
reset_KeepTags ==
    /\ pc = "reset"
    /\ photos' = <<>>
    /\ slides' = <<>>
    /\ score' = 0
    /\ pc' = "readFile"
    /\ UNCHANGED <<f, line, allTags, nextIndex, size, logged, wstream, error, cmpVars>>

reset ==
    /\ pc = "reset"
    /\ photos' = <<>>
    /\ allTags' = EmptyMap
    /\ slides' = <<>>
    /\ score' = 0
    /\ pc' = "readFile"
    /\ UNCHANGED <<f, line, nextIndex, size, logged, wstream, error, cmpVars>>

\* readFile up to the loop: readFileSync returned the data. The first line,
\* the declared number of photos, is shifted off and never used.
readFileOpen ==
    /\ pc = "readFile"
    /\ nextIndex' = 0
    /\ size' = 0
    /\ pc' = "readLoop"
    /\ UNCHANGED <<f, line, photos, allTags, slides, score, logged, wstream, error, cmpVars>>

\* readFileSync throws (source unreadable): nothing catches it, the process
\* ends with the streams of the earlier files still unflushed.
readFileThrows ==
    /\ pc = "readFile"
    /\ error' = [kind |-> "read", file |-> f]
    /\ pc' = "crashed"
    /\ UNCHANGED <<f, line, photos, allTags, nextIndex, size, slides, score, logged, wstream, cmpVars>>

\* One iteration of the for-of over a falsy line: continue.
readLineEmpty ==
    /\ pc = "readLoop"
    /\ line' = EmptyLine
    /\ UNCHANGED <<pc, f, photos, allTags, nextIndex, size, slides, score, logged, wstream, error, cmpVars>>

\* One iteration of the for-of over a non-empty line.
readLine(l) ==
    /\ pc = "readLoop"
    /\ size + LineSize(l) <= MaxFileSize
    /\ size' = size + LineSize(l)
    /\ line' = l
    /\ LET photo == readPhoto(l, nextIndex)
       IN  /\ allTags' = registerTags(photo.tags, photo.id, allTags)
           /\ nextIndex' = nextIndex + 1
           /\ photos' = Append(photos, photo)
    /\ UNCHANGED <<pc, f, slides, score, logged, wstream, error, cmpVars>>

\* End of the for-of: readFile returns.
readFileReturn ==
    /\ pc = "readLoop"
    /\ line' = NoLine
    /\ pc' = "solve"
    /\ UNCHANGED <<f, photos, allTags, nextIndex, size, slides, score, logged, wstream, error, cmpVars>>

solve ==
    /\ pc = "solve"
    /\ photos' = sortPhotos(photos, allTags)
    /\ slides' = buildSlides(photos')
    /\ pc' = "getScore"
    /\ UNCHANGED <<f, line, allTags, nextIndex, size, score, logged, wstream, error, cmpVars>>

\* slideshow.score = getScore(slideshow); console.log(f + ': ' + score)
scoreSlideshow ==
    /\ pc = "getScore"
    /\ score' = getScore(slides)
    /\ logged' = logged \cup {f}
    /\ pc' = "createOutput"
    /\ UNCHANGED <<f, line, photos, allTags, nextIndex, size, slides, wstream, error, cmpVars>>

createOutput_NoStream ==
    /\ pc = "createOutput"
    /\ IF f < NumFiles
       THEN f' = f + 1 /\ pc' = "reset"
       ELSE f' = f /\ pc' = "exited"
    /\ UNCHANGED <<line, photos, allTags, nextIndex, size, slides, score, logged, wstream, error, cmpVars>>

\* createOutput queues every chunk on a new write stream and calls end();
\* nothing is written before the event loop runs. The callback returns and
\* forEach moves to the next file, or the script ends.
createOutput ==
    /\ pc = "createOutput"
    /\ wstream' = [wstream EXCEPT ![f] = "ended"]
    /\ IF f < NumFiles
       THEN f' = f + 1 /\ pc' = "reset"
       ELSE f' = f /\ pc' = "exited"
    /\ UNCHANGED <<line, photos, allTags, nextIndex, size, slides, score, logged, error, cmpVars>>

\* Event loop, after the script has returned: a stream's open and writes
\* complete.
streamFinish(k) ==
    /\ pc = "exited"
    /\ wstream[k] = "ended"
    /\ wstream' = [wstream EXCEPT ![k] = "finished"]
    /\ UNCHANGED <<pc, f, line, photos, allTags, nextIndex, size, slides, score, logged, error, cmpVars>>

\* Event loop: the destination is unwritable, the stream emits 'error', which
\* has no listener: the process ends.
streamError(k) ==
    /\ pc = "exited"
    /\ wstream[k] = "ended"
    /\ wstream' = [wstream EXCEPT ![k] = "errored"]
    /\ error' = [kind |-> "write", file |-> k]
    /\ pc' = "crashed"
    /\ UNCHANGED <<f, line, photos, allTags, nextIndex, size, slides, score, logged, cmpVars>>

Next ==
    \/ reset
    \/ readFileOpen
    \/ readFileThrows
    \/ readLineEmpty
    \/ \E l \in WellFormedLines(Tags, MaxFileSize - size - 1) : readLine(l)
    \/ \E l \in MalformedLines(Tags, MaxFileSize - size - 1) : readLine(l)
    \/ readFileReturn
    \/ solve
    \/ scoreSlideshow
    \/ createOutput
    \/ \E k \in Files : streamFinish(k)
    \/ \E k \in Files : streamError(k)

Spec == Init /\ [][Next]_vars

\* ------------------------------------------------------------------ compareSlides alone
\* compareSlides applied to two slides the builder makes from well-formed
\* horizontal photo lines of up to CmpMaxTags tags over CmpNumTags tag strings.
CmpLines ==
    {l \in WellFormedLines(1..CmpNumTags, CmpMaxTags) : l.orientation = "H"}

buildArg1(l) ==
    /\ cmpPc = "arg1"
    /\ slide1' = createHorizontalSlide(readPhoto(l, 0))
    /\ cmpPc' = "arg2"
    /\ UNCHANGED <<slide2, result, batchVars>>

buildArg2(l) ==
    /\ cmpPc = "arg2"
    /\ slide2' = createHorizontalSlide(readPhoto(l, 1))
    /\ cmpPc' = "call"
    /\ UNCHANGED <<slide1, result, batchVars>>

callCompareSlides ==
    /\ cmpPc = "call"
    /\ result' = compareSlides(slide1, slide2)
    /\ cmpPc' = "returned"
    /\ UNCHANGED <<slide1, slide2, batchVars>>

NextCompare ==
    \/ \E l \in CmpLines : buildArg1(l)
    \/ \E l \in CmpLines : buildArg2(l)
    \/ callCompareSlides

SpecCompare == Init /\ [][NextCompare]_vars

\* ------------------------------------------------------------------ properties
Min3(a, b, c) == Min2(a, Min2(b, c))

TagSet(slide) == Range(slide.tags)

\* solve has returned for the current file: photos is ranked, slides is built.
Solved == pc \in {"getScore", "createOutput"}

Verticals == {i \in 1..Len(photos) : photos[i].orientation = "V"}

\* How often a photo id occurs in the slides.
Occurrences(id) ==
    Cardinality({ij \in (1..Len(slides)) \X (1..2) :
                    /\ ij[2] <= Len(slides[ij[1]].photos)
                    /\ slides[ij[1]].photos[ij[2]].id = id})

\* C1: compareSlides(A, B) is min(|tags(A) /\ tags(B)|, |tags(A) \ tags(B)|,
\* |tags(B) \ tags(A)|) over the distinct tags, for every slide built from a
\* horizontal photo line, a line that repeats a tag included.
C1_ScoreIsMinOverDistinctTags ==
    cmpPc = "returned" =>
        result = Min3(Cardinality(TagSet(slide1) \cap TagSet(slide2)),
                      Cardinality(TagSet(slide1) \ TagSet(slide2)),
                      Cardinality(TagSet(slide2) \ TagSet(slide1)))

C3_BlockConcatenation ==
    Solved =>
        LET hs == SelectSeq(photos, isH)
            vs == SelectSeq(photos, isV)
        IN  /\ Len(slides) = Len(hs) + (Len(vs) \div 2)
            /\ \A i \in 1..Len(hs) :
                   /\ slides[i].photos = <<hs[i]>>
                   /\ slides[i].tags = hs[i].tags
            /\ \A j \in 1..(Len(vs) \div 2) :
                   LET s == slides[Len(hs) + j]
                   IN  /\ s.photos = <<vs[2 * j - 1], vs[2 * j]>>
                       /\ \A n \in 1..2 : s.photos[n].orientation = "V"
                       /\ \A a, b \in 1..Len(s.tags) : s.tags[a] = s.tags[b] => a = b
                       /\ TagSet(s) = Range(vs[2 * j - 1].tags) \cup Range(vs[2 * j].tags)

C3_Witness ==
    /\ Solved
    /\ Cardinality(Verticals) = 3
    /\ Len(slides) = 1
    /\ Len(slides[1].photos) = 2
    /\ Len(slides[1].tags) = 1
    /\ Len(slides[1].photos[1].tags) + Len(slides[1].photos[2].tags) = 3

\* The tag score as the claim defines it: over the photo's tags, the number
\* of photos of the catalog that carry the tag.
ClaimedTagScore(p) ==
    Cardinality({tq \in Range(p.tags) \X (1..Len(photos)) :
                    includes(photos[tq[2]].tags, tq[1])})

\* C4: the ranking of solve is the catalog in descending order of tagScore,
\* the sum over a photo's tags of the number of photos carrying the tag;
\* photos of equal tagScore keep their input order.
C4_RankedByTagScore ==
    Solved =>
        \A i, j \in 1..Len(photos) :
            i < j =>
                \/ ClaimedTagScore(photos[i]) > ClaimedTagScore(photos[j])
                \/ /\ ClaimedTagScore(photos[i]) = ClaimedTagScore(photos[j])
                   /\ photos[i].id < photos[j].id

\* C5: for every tag and photo, the photo's id is in the tag's photoIds iff
\* the photo's tags contain the tag, and it is there at most once, so that
\* photoIds.length is the number of distinct photos carrying the tag.
C5_IndexMatchesTags ==
    /\ \A i \in 1..Len(photos) : \A tag \in Tags \cup {UNDEF} :
           LET ids == IF tag \in DOMAIN allTags THEN allTags[tag] ELSE <<>>
               n == Cardinality({k \in 1..Len(ids) : ids[k] = photos[i].id})
           IN  n = IF includes(photos[i].tags, tag) THEN 1 ELSE 0
    /\ \A tag \in DOMAIN allTags :
           Len(allTags[tag]) =
               Cardinality({i \in 1..Len(photos) : includes(photos[i].tags, tag)})

\* C6: when readFile starts, for every file of the batch, the catalog and
\* the tag index are empty; while the file is indexed, ranked and scored the
\* ids are 0, 1, ... of this file's photos and the index holds only them.
C6_FreshPerFile ==
    /\ pc = "readFile" => photos = <<>> /\ allTags = EmptyMap
    /\ pc \in {"readLoop", "solve", "getScore", "createOutput"} =>
           /\ Len(photos) = nextIndex
           /\ {photos[i].id : i \in 1..Len(photos)} = 0..(nextIndex - 1)
           /\ \A tag \in DOMAIN allTags : \A k \in 1..Len(allTags[tag]) :
                  \E i \in 1..Len(photos) :
                      /\ photos[i].id = allTags[tag][k]
                      /\ includes(photos[i].tags, tag)

\* The second file is about to be read after a first file that had photos.
C6_Witness == pc = "readFile" /\ f = 2 /\ nextIndex > 0 /\ 1 \in logged

\* The process has ended: by an uncaught error, or with every stream done.
Terminated ==
    \/ pc = "crashed"
    \/ pc = "exited" /\ \A k \in Files : wstream[k] # "ended"

\* C7: when reading or writing one file fails, only that file is aborted:
\* every other file of the list is still read, solved, scored and written.
C7_FailureIsolated ==
    Terminated =>
        \A k \in Files :
            k # error.file => k \in logged /\ wstream[k] = "finished"

IsPhotoLine(l) == l.orientation \in {"H", "V"}

\* C8: a non-empty line that cannot be parsed into photo fields fails the
\* file: no photo is created from it, nothing is registered for it and no
\* slideshow is scored or written, so the loop never stands after such a line.
C8_MalformedFailsFile ==
    (IsPhotoLine(line) /\ Malformed(line)) => pc = "crashed"

\* C9: getScore is the sum of compareSlides over the adjacent pairs, 0 for a
\* sequence of length 0 or 1, and never negative.
C9_ScoreIsSumOfAdjacent ==
    pc = "createOutput" =>
        /\ score = SumSeq([i \in 1..(Len(slides) - 1) |->
                             compareSlides(slides[i], slides[i + 1])])
        /\ Len(slides) <= 1 => score = 0
        /\ score >= 0

C9_Witness == pc = "createOutput" /\ Len(slides) >= 2 /\ score > 0

\* C10 as stated: the write of file k's output is complete before
\* reset/readFile runs for file k + 1.
C10_WrittenBeforeNextFile ==
    \A k \in Files : f > k => wstream[k] = "finished"

\* C10 amended: before reset runs for file k + 1, file k is read, solved,
\* scored and its whole output is queued on an ended write stream; no write
\* completes before the batch loop has returned.
C10_QueuedBeforeNextFile ==
    \A k \in Files :
        /\ f > k => k \in logged /\ wstream[k] \in {"ended", "finished", "errored"}
        /\ wstream[k] \in {"finished", "errored"} => pc \in {"exited", "crashed"}

C10_Witness == f = 2 /\ pc = "reset" /\ wstream[1] = "ended" /\ Len(slides) >= 1

====
